---- MODULE Spec2Model ----
(***************************************************************************)
(* A model of assignment.py: the BearcatII alphabet codec, Euclid's and    *)
(* the extended Euclid algorithm, modular exponentiation, the Miller-Rabin *)
(* test, the n-digit prime generator and the rsa() demonstration flow.     *)
(* Pure functions are operators computed the way the code computes them;   *)
(* loops that draw random numbers or read input are actions.               *)
(***************************************************************************)
EXTENDS Integers, Sequences, FiniteSets

VARIABLES
    pc,                     \* position of the running call or flow
    \* euclid_gcd / extended_euclid_gcd applied to (a, b)
    a, b, gcd_ret, egcd_ret,
    \* powers applied to base pw_a, modulus pw_k and each exponent of pw_n
    pw_a, pw_k, pw_n, pw_ret,
    \* the message codec and the symbol lookup applied to their inputs
    cd_message, cd_encoded, cd_decoded, cd_index, cd_character,
    \* prime_test_miller_rabin(mr_n, mr_iterations): loop counter and result
    mr_n, mr_iterations, mr_i, mr_ret, mr_caller,
    \* generate_n_digit_prime(gen_n): the candidate and the returned value
    gen_n, prime, gen_ret,
    \* the locals of rsa()
    p, q, n, phi, e, message, message_to_bearcatii, bearcatii_to_decimal,
    C, private_key, decrypted, decrypted_to_bearcatii, decrypted_message

ntVars == <<a, b, gcd_ret, egcd_ret>>
pwVars == <<pw_a, pw_k, pw_n, pw_ret>>
cdVars == <<cd_message, cd_encoded, cd_decoded, cd_index, cd_character>>
mrVars == <<mr_n, mr_iterations, mr_i, mr_ret, mr_caller>>
genVars == <<gen_n, prime, gen_ret>>
rsaVars == <<p, q, n, phi, e, message, message_to_bearcatii,
             bearcatii_to_decimal, C, private_key, decrypted,
             decrypted_to_bearcatii, decrypted_message>>
vars == <<pc, ntVars, pwVars, cdVars, mrVars, genVars, rsaVars>>

----------------------------------------------------------------------------
(* Bounds of the model *)

MaxArg == 12          \* euclid_gcd / extended_euclid_gcd arguments: 0..MaxArg
MaxBase == 8          \* powers: base in 0..MaxBase
MaxMod == 9           \* powers: modulus in 2..MaxMod
MaxExp == 4           \* powers: exponents in -MaxExp..MaxExp
MaxLen == 2           \* codec and rsa() messages: 1..MaxLen symbols
MaxIndex == 28        \* symbol lookup: index in -MaxIndex..MaxIndex
MaxTested == 20       \* prime_test_miller_rabin: n in 2..MaxTested
MaxIterations == 6    \* prime_test_miller_rabin: iterations in 0..MaxIterations
RetestIterations == 20  \* iterations of the test applied to a returned prime
MaxRandomSpan == 10   \* a random draw from [lo, hi] yields one of the first
                      \* MaxRandomSpan values of the range
MaxDigits == 2        \* generate_n_digit_prime: n in 1..MaxDigits, and 4
MaxPrime == 7         \* rsa(): p and q are primes up to MaxPrime
MaxE == 7             \* rsa(): public keys entered are in 1..MaxE
HelloMaxE == 17       \* rsa() with p = 61, q = 53: keys entered in 1..HelloMaxE
HelloMaxLen == 1      \* ... and messages of 1..HelloMaxLen symbols, and HELLO

----------------------------------------------------------------------------
(* Raised errors, as results *)

ValueError == -1            \* powers: "Inverse does not exist."
CharacterNotFound == -2     \* get_index_from_character: "Character not found"
IndexError == "IndexError"  \* get_character_from_index, list indexing

----------------------------------------------------------------------------
(* The BearcatII alphabet *)

characters ==
    <<"A", "B", "C", "D", "E", "F", "G", "H", "I", "J", "K", "L", "M",
      "N", "O", "P", "Q", "R", "S", "T", "U", "V", "W", "X", "Y", "Z">>

Alphabet == {characters[i] : i \in 1..Len(characters)}

\* A Python list read at a 0-based index: negative indexes count from the
\* end, anything outside [-len, len - 1] raises IndexError.
list_item(list, idx) ==
    IF idx >= 0 /\ idx < Len(list) THEN list[idx + 1]
    ELSE IF idx < 0 /\ idx >= -Len(list) THEN list[Len(list) + idx + 1]
    ELSE IndexError

get_character_from_index(index) ==
    IF index > Len(characters) THEN IndexError
    ELSE list_item(characters, index - 1)

RECURSIVE index_scan(_, _)
index_scan(character, index) ==
    IF index >= Len(characters) THEN CharacterNotFound
    ELSE IF characters[index + 1] = character THEN index + 1
    ELSE index_scan(character, index + 1)

\* get_index_from_character returning the 0-based list index.
get_index_zero_based(character) == index_scan(character, 0) - 1

get_index_from_character(character) == index_scan(character, 0)

\* Inputs are drawn from the alphabet, so no lookup of the list raises.
convert_to_bearcatii(msg) ==
    [i \in 1..Len(msg) |-> get_index_from_character(msg[i])]

\* A string is the sequence of its characters; a lookup that raises makes
\* the whole call raise, written as the one-element sequence <<IndexError>>.
convert_bearcatii_to_string(bearcatii) ==
    LET chars == [i \in 1..Len(bearcatii) |->
                     get_character_from_index(bearcatii[i])]
    IN  IF \E i \in 1..Len(bearcatii) : chars[i] = IndexError
        THEN <<IndexError>>
        ELSE chars

RECURSIVE base_n_loop(_, _, _)
base_n_loop(value, radix, output) ==
    IF value = 0 THEN output
    ELSE base_n_loop(value \div radix, radix, <<value % radix>> \o output)

convert_to_base_n(value, radix) == base_n_loop(value, radix, <<>>)

\* horner_eval reading the coefficients in increasing order of degree.
RECURSIVE horner_eval_low_first(_, _)
horner_eval_low_first(coefficients, value) ==
    IF coefficients = <<>> THEN 0
    ELSE Head(coefficients)
         + value * horner_eval_low_first(Tail(coefficients), value)

RECURSIVE horner_loop(_, _, _)
horner_loop(coefficients, value, output) ==
    IF coefficients = <<>> THEN output
    ELSE horner_loop(Tail(coefficients), value,
                     output * value + Head(coefficients))

horner_eval(coefficients, value) == horner_loop(coefficients, value, 0)

Radix == Len(characters) + 1

\* rsa(): the message to its integer, and the integer back to a message.
encode(msg, radix) == horner_eval(convert_to_bearcatii(msg), radix)

decode(value, radix) ==
    convert_bearcatii_to_string(convert_to_base_n(value, radix))

\* The messages of 1..len symbols of the alphabet.
Messages(len) == UNION {[1..l -> Alphabet] : l \in 1..len}

----------------------------------------------------------------------------
(* Number theory *)

RECURSIVE euclid_gcd(_, _)
euclid_gcd(x, y) ==
    IF y = 0 THEN x ELSE euclid_gcd(y, x % y)

\* extended_euclid_gcd with the quotient left out of the combination step.
RECURSIVE extended_euclid_gcd_no_quotient(_, _)
extended_euclid_gcd_no_quotient(x, y) ==
    IF y = 0 THEN <<x, 1, 0>>
    ELSE LET r == extended_euclid_gcd_no_quotient(y, x % y)
         IN  <<r[1], r[3], r[2] - r[3]>>

RECURSIVE extended_euclid_gcd(_, _)
extended_euclid_gcd(x, y) ==
    IF y = 0 THEN <<x, 1, 0>>
    ELSE LET r == extended_euclid_gcd(y, x % y)
             g == r[1]
             s == r[2]
             t == r[3]
             quot == x \div y
         IN  <<g, t, s - quot * t>>

\* (x * y) % k of Python's unbounded integers, computed on the residues of
\* x and y so that the product stays within TLC's 32-bit integers.
mul_mod(x, y, k) == ((x % k) * (y % k)) % k

\* powers whose odd branch drops the factor a.
RECURSIVE powers_odd_dropped(_, _, _)
powers_odd_dropped(x, m, k) ==
    IF m = 0 THEN 1 % k
    ELSE IF m = 1 THEN x % k
    ELSE IF m < 0
         THEN LET r == extended_euclid_gcd(x, k)
              IN  IF r[1] # 1 THEN ValueError
                  ELSE powers_odd_dropped(r[2] % k, -m, k)
    ELSE IF m % 2 = 0 THEN powers_odd_dropped(mul_mod(x, x, k), m \div 2, k)
    ELSE powers_odd_dropped(mul_mod(x, x, k), (m - 1) \div 2, k) % k

\* powers(a, n, k): only the branch n < 0 raises, and the call it makes has
\* a positive exponent, so no recursive call returns ValueError.
RECURSIVE powers(_, _, _)
powers(x, m, k) ==
    IF m = 0 THEN 1 % k
    ELSE IF m = 1 THEN x % k
    ELSE IF m < 0
         THEN LET r == extended_euclid_gcd(x, k)
              IN  IF r[1] # 1 THEN ValueError
                  ELSE powers(r[2] % k, -m, k)
    ELSE IF m % 2 = 0 THEN powers(mul_mod(x, x, k), m \div 2, k)
    ELSE mul_mod(x, powers(mul_mod(x, x, k), (m - 1) \div 2, k), k)

euler_totient(x, y) == (x - 1) * (y - 1)

----------------------------------------------------------------------------
(* Random draws, the Miller-Rabin round, the candidate of the generator *)

Min(x, y) == IF x <= y THEN x ELSE y

\* The values random.randint(lo, hi) may return (the first MaxRandomSpan
\* of them); the set is empty when lo > hi, and randint then raises
\* ValueError.
get_random_int_between(lo, hi) == lo..Min(hi, lo + MaxRandomSpan - 1)

\* The halving loop without the break at x = n - 1.
RECURSIVE halving_loop_no_break(_, _, _)
halving_loop_no_break(nn, w, k) ==
    IF k % 2 # 0 THEN TRUE
    ELSE LET k2 == k \div 2
             x == powers(w, k2, nn)
         IN  IF x # 1 THEN FALSE
             ELSE halving_loop_no_break(nn, w, k2)

\* The while loop of one iteration: TRUE when it ends (k odd, or the
\* break at x = n - 1), FALSE when it returns False.
RECURSIVE halving_loop(_, _, _)
halving_loop(nn, w, k) ==
    IF k % 2 # 0 THEN TRUE
    ELSE LET k2 == k \div 2
             x == powers(w, k2, nn)
         IN  IF x = nn - 1 THEN TRUE
             ELSE IF x # 1 THEN FALSE
             ELSE halving_loop(nn, w, k2)

\* One iteration of prime_test_miller_rabin(nn, _) with witness w: FALSE
\* when the iteration returns False, TRUE when the for loop goes on.
miller_rabin_round(nn, w) ==
    IF powers(w, nn - 1, nn) # 1 THEN FALSE
    ELSE halving_loop(nn, w, nn - 1)

GeneratorIterations == 10

LastDigits == {1, 3, 7, 9}

\* int() of a string of decimal digits, given as the sequence of digits.
RECURSIVE int_of(_, _)
int_of(digit_string, output) ==
    IF digit_string = <<>> THEN output
    ELSE int_of(Tail(digit_string), 10 * output + Head(digit_string))

\* The strings "".join(... for _ in range(count)) may build.
middle_digit_strings(count) ==
    [1..(IF count > 0 THEN count ELSE 0) -> get_random_int_between(0, 9)]

----------------------------------------------------------------------------
(* Values of the variables a specification does not use *)

ntIdle == a = 0 /\ b = 0 /\ gcd_ret = 0 /\ egcd_ret = <<>>
pwIdle == pw_a = 0 /\ pw_k = 0 /\ pw_n = <<>> /\ pw_ret = <<>>
cdIdle ==
    /\ cd_message = <<>> /\ cd_encoded = 0 /\ cd_decoded = <<>>
    /\ cd_index = 0 /\ cd_character = ""
mrIdle ==
    /\ mr_n = 0 /\ mr_iterations = 0 /\ mr_i = 0
    /\ mr_ret = FALSE /\ mr_caller = ""
genIdle == gen_n = 0 /\ prime = 0 /\ gen_ret = 0
rsaIdle ==
    /\ p = 0 /\ q = 0 /\ n = 0 /\ phi = 0 /\ e = 0
    /\ message = <<>> /\ message_to_bearcatii = <<>>
    /\ bearcatii_to_decimal = 0 /\ C = 0 /\ private_key = 0
    /\ decrypted = 0 /\ decrypted_to_bearcatii = <<>>
    /\ decrypted_message = <<>>

----------------------------------------------------------------------------
(* euclid_gcd and extended_euclid_gcd applied to non-negative a, b *)

InitGcd ==
    /\ pc = "gcd_call"
    /\ a \in 0..MaxArg /\ b \in 0..MaxArg
    /\ gcd_ret = 0 /\ egcd_ret = <<>>
    /\ pwIdle /\ cdIdle /\ mrIdle /\ genIdle /\ rsaIdle

CallEuclidGcd ==
    /\ pc = "gcd_call"
    /\ gcd_ret' = euclid_gcd(a, b)
    /\ pc' = "egcd_call"
    /\ UNCHANGED <<a, b, egcd_ret, pwVars, cdVars, mrVars, genVars, rsaVars>>

CallExtendedEuclidGcd ==
    /\ pc = "egcd_call"
    /\ egcd_ret' = extended_euclid_gcd(a, b)
    /\ pc' = "gcd_done"
    /\ UNCHANGED <<a, b, gcd_ret, pwVars, cdVars, mrVars, genVars, rsaVars>>

NextGcd == CallEuclidGcd \/ CallExtendedEuclidGcd

SpecGcd == InitGcd /\ [][NextGcd]_vars

Divides(d, x) == \E m \in 0..x : x = m * d

\* C4: for all non-negative a and b, gcd(a, b) divides both a and b, and
\* extended_gcd(a, b) returns (g, s, t) with g = gcd(a, b) and
\* s*a + t*b = g.
C4_GcdAndBezout ==
    pc = "gcd_done" =>
        /\ Divides(gcd_ret, a)
        /\ Divides(gcd_ret, b)
        /\ egcd_ret[1] = gcd_ret
        /\ egcd_ret[2] * a + egcd_ret[3] * b = egcd_ret[1]

C4_Witness ==
    /\ pc = "gcd_done"
    /\ a > b /\ b > 0
    /\ gcd_ret > 1 /\ gcd_ret < b
    /\ egcd_ret[2] < 0

----------------------------------------------------------------------------
(* powers applied to one base and modulus and the exponents e1, e2, e1+e2 *)

InitPowers ==
    /\ pc = "powers_call"
    /\ pw_a \in 0..MaxBase
    /\ pw_k \in 2..MaxMod
    /\ pw_n \in {<<e1, e2, e1 + e2>> :
                    e1 \in (-MaxExp)..MaxExp, e2 \in (-MaxExp)..MaxExp}
    /\ pw_ret = <<>>
    /\ ntIdle /\ cdIdle /\ mrIdle /\ genIdle /\ rsaIdle

CallPowers ==
    /\ pc = "powers_call"
    /\ pw_ret' = Append(pw_ret, powers(pw_a, pw_n[Len(pw_ret) + 1], pw_k))
    /\ pc' = IF Len(pw_ret') = Len(pw_n) THEN "powers_done" ELSE "powers_call"
    /\ UNCHANGED <<pw_a, pw_k, pw_n, ntVars, cdVars, mrVars, genVars, rsaVars>>

NextPowers == CallPowers

SpecPowers == InitPowers /\ [][NextPowers]_vars

Coprime(x, y) == \A d \in 2..y : ~(x % d = 0 /\ y % d = 0)

\* C5: for base >= 0, modulus > 1 and exponents e1, e2 (negative ones only
\* when base and modulus are coprime), mod_pow(base, e1+e2, modulus) =
\* mod_pow(base, e1, modulus) * mod_pow(base, e2, modulus) mod modulus; and
\* for coprime base and modulus, mod_pow(base, -1, modulus) * base mod
\* modulus = 1.
C5_ExponentComposition ==
    (/\ pc = "powers_done"
     /\ (\E i \in 1..3 : pw_n[i] < 0) => Coprime(pw_a, pw_k))
    => /\ pw_ret[3] = (pw_ret[1] * pw_ret[2]) % pw_k
       /\ pw_n[1] = -1 => (pw_ret[1] * pw_a) % pw_k = 1

C5_Witness ==
    /\ pc = "powers_done"
    /\ pw_n = <<-3, 4, 1>>
    /\ pw_a = 5 /\ pw_k = 9
    /\ pw_ret[1] = 8 /\ pw_ret[3] = 5

----------------------------------------------------------------------------
(* The message codec applied to a message, the symbol lookup to an index *)

InitCodec ==
    /\ \/ /\ pc = "encode_call"
          /\ cd_message \in Messages(MaxLen)
          /\ cd_index = 0
       \/ /\ pc = "lookup_call"
          /\ cd_message = <<>>
          /\ cd_index \in (-MaxIndex)..MaxIndex
    /\ cd_encoded = 0 /\ cd_decoded = <<>> /\ cd_character = ""
    /\ ntIdle /\ pwIdle /\ mrIdle /\ genIdle /\ rsaIdle

CallEncode ==
    /\ pc = "encode_call"
    /\ cd_encoded' = encode(cd_message, Radix)
    /\ pc' = "decode_call"
    /\ UNCHANGED <<cd_message, cd_decoded, cd_index, cd_character,
                   ntVars, pwVars, mrVars, genVars, rsaVars>>

CallDecode ==
    /\ pc = "decode_call"
    /\ cd_decoded' = decode(cd_encoded, Radix)
    /\ pc' = "codec_done"
    /\ UNCHANGED <<cd_message, cd_encoded, cd_index, cd_character,
                   ntVars, pwVars, mrVars, genVars, rsaVars>>

CallGetCharacterFromIndex ==
    /\ pc = "lookup_call"
    /\ cd_character' = get_character_from_index(cd_index)
    /\ pc' = "lookup_done"
    /\ UNCHANGED <<cd_message, cd_encoded, cd_decoded, cd_index,
                   ntVars, pwVars, mrVars, genVars, rsaVars>>

NextCodec == CallEncode \/ CallDecode \/ CallGetCharacterFromIndex

SpecCodec == InitCodec /\ [][NextCodec]_vars

\* C2: for every sequence S of alphabet symbols of length >= 1,
\* decode(encode(S, 27), 27) = S.
C2_CodecRoundTrip ==
    pc = "codec_done" => cd_decoded = cd_message

C2_Witness ==
    /\ pc = "codec_done"
    /\ cd_message = <<"Z", "A">>
    /\ cd_encoded = 26 * 27 + 1
    /\ cd_decoded = <<"Z", "A">>

\* C3: symbol_at(position) is the symbol at the 1-based position for every
\* position in [1, 26], and fails with OutOfRange for every position
\* outside [1, 26] (0 and 27 among them), never wrapping to another symbol.
C3_SymbolAtRange ==
    pc = "lookup_done" =>
        IF cd_index \in 1..Len(characters)
        THEN cd_character = characters[cd_index]
        ELSE cd_character = IndexError

----------------------------------------------------------------------------
(* prime_test_miller_rabin(mr_n, mr_iterations) *)

\* Lines 183-200: one iteration of the for loop, with its random witness.
MillerRabinIteration ==
    /\ pc = "mr_loop"
    /\ mr_i < mr_iterations
    /\ IF get_random_int_between(2, mr_n - 2) = {}
       THEN /\ pc' = "mr_raised"
            /\ UNCHANGED <<mr_i, mr_ret>>
       ELSE \E w \in get_random_int_between(2, mr_n - 2) :
                IF miller_rabin_round(mr_n, w)
                THEN /\ mr_i' = mr_i + 1
                     /\ UNCHANGED <<pc, mr_ret>>
                ELSE /\ mr_ret' = FALSE
                     /\ pc' = "mr_return"
                     /\ UNCHANGED mr_i
    /\ UNCHANGED <<mr_n, mr_iterations, mr_caller,
                   ntVars, pwVars, cdVars, genVars, rsaVars>>

\* Line 202: the for loop is exhausted.
MillerRabinReturnTrue ==
    /\ pc = "mr_loop"
    /\ mr_i = mr_iterations
    /\ mr_ret' = TRUE
    /\ pc' = "mr_return"
    /\ UNCHANGED <<mr_n, mr_iterations, mr_i, mr_caller,
                   ntVars, pwVars, cdVars, genVars, rsaVars>>

InitMillerRabin ==
    /\ pc = "mr_loop"
    /\ mr_n \in 2..MaxTested
    /\ mr_iterations \in 0..MaxIterations
    /\ mr_i = 0 /\ mr_ret = FALSE /\ mr_caller = "test"
    /\ ntIdle /\ pwIdle /\ cdIdle /\ genIdle /\ rsaIdle

NextMillerRabin == MillerRabinIteration \/ MillerRabinReturnTrue

SpecMillerRabin == InitMillerRabin /\ [][NextMillerRabin]_vars

IsPrimeNumber(x) ==
    x > 1 /\ \A d \in 2..(x - 1) : d * d > x \/ x % d # 0

\* C6: is_probable_prime(n, iterations) returns true, without raising any
\* error, for every prime n from 2 up, every iterations >= 5 and every
\* choice of the random witnesses.
C6_PrimesPassWithoutError ==
    (mr_caller = "test" /\ mr_iterations >= 5 /\ IsPrimeNumber(mr_n))
    => /\ pc # "mr_raised"
       /\ pc = "mr_return" => mr_ret = TRUE

----------------------------------------------------------------------------
(* generate_n_digit_prime(gen_n), and a fresh test of the value returned *)

InitGenerate ==
    /\ pc = "gen_loop"
    /\ gen_n \in (1..MaxDigits) \cup {4}
    /\ prime = 0 /\ gen_ret = 0
    /\ mrIdle
    /\ ntIdle /\ pwIdle /\ cdIdle /\ rsaIdle

\* Lines 217-227: build a candidate and call the test on it.
GenerateCandidate ==
    /\ pc = "gen_loop"
    /\ \E first_digit \in get_random_int_between(1, 9),
          middle_digits \in middle_digit_strings(gen_n - 2),
          last_digit \in LastDigits :
           prime' = int_of(<<first_digit>> \o middle_digits
                               \o <<last_digit>>, 0)
    /\ mr_n' = prime'
    /\ mr_iterations' = GeneratorIterations
    /\ mr_i' = 0
    /\ mr_caller' = "generate"
    /\ pc' = "mr_loop"
    /\ UNCHANGED <<gen_n, gen_ret, mr_ret, ntVars, pwVars, cdVars, rsaVars>>

\* Lines 227-228: return the candidate that passed, or loop.  The frame of
\* the test is gone once it has returned, and a rejected candidate is
\* overwritten before it is read again: the model clears both.
GenerateTested ==
    /\ pc = "mr_return"
    /\ mr_caller = "generate"
    /\ IF mr_ret
       THEN /\ gen_ret' = prime
            /\ pc' = "gen_return"
            /\ UNCHANGED prime
       ELSE /\ prime' = 0
            /\ pc' = "gen_loop"
            /\ UNCHANGED gen_ret
    /\ mr_n' = 0 /\ mr_iterations' = 0 /\ mr_i' = 0
    /\ mr_ret' = FALSE /\ mr_caller' = ""
    /\ UNCHANGED <<gen_n, ntVars, pwVars, cdVars, rsaVars>>

\* prime_test_miller_rabin(gen_ret, RetestIterations), called afresh.
Retest ==
    /\ pc = "gen_return"
    /\ mr_n' = gen_ret
    /\ mr_iterations' = RetestIterations
    /\ mr_i' = 0
    /\ mr_caller' = "retest"
    /\ pc' = "mr_loop"
    /\ UNCHANGED <<mr_ret, genVars, ntVars, pwVars, cdVars, rsaVars>>

NextGenerate ==
    \/ GenerateCandidate
    \/ MillerRabinIteration
    \/ MillerRabinReturnTrue
    \/ GenerateTested
    \/ Retest

SpecGenerate == InitGenerate /\ [][NextGenerate]_vars

RECURSIVE NumDigits(_)
NumDigits(x) == IF x < 10 THEN 1 ELSE 1 + NumDigits(x \div 10)

\* C7: for every digit count digits >= 1 and every outcome of the random
\* draws, every candidate generate_prime(digits) builds, and the value it
\* returns, has exactly `digits` decimal digits, a non-zero first digit
\* and a last digit in {1,3,7,9}.
C7_CandidateShape ==
    \A x \in {prime, gen_ret} :
        x # 0 => /\ NumDigits(x) = gen_n
                 /\ x % 10 \in {1, 3, 7, 9}

\* C8 as claimed: every value generate_prime(4) can return passes a fresh
\* is_probable_prime(n, 20), whatever witnesses that call draws.
C8_ReturnedValuePassesRetest ==
    (pc = "mr_return" /\ mr_caller = "retest" /\ gen_n = 4)
    => mr_ret = TRUE

\* C8 as amended: every prime value generate_prime(4) returns passes a
\* fresh is_probable_prime(n, 20), whatever witnesses that call draws (a
\* composite that was returned on liar witnesses may fail it).
C8_PrimeReturnPassesRetest ==
    (/\ pc = "mr_return" /\ mr_caller = "retest" /\ gen_n = 4
     /\ IsPrimeNumber(gen_ret))
    => mr_ret = TRUE

C8_Witness ==
    /\ pc = "mr_return" /\ mr_caller = "retest" /\ gen_n = 4
    /\ gen_ret > 1000
    /\ IsPrimeNumber(gen_ret)
    /\ mr_i = RetestIterations
    /\ mr_ret = TRUE

----------------------------------------------------------------------------
(* rsa(), from the two generated primes on *)

\* Line 331-332.
ComputeModulus ==
    /\ pc = "rsa_keys"
    /\ n' = p * q
    /\ phi' = euler_totient(p, q)
    /\ pc' = "rsa_input_e"
    /\ UNCHANGED <<p, q, e, message, message_to_bearcatii,
                   bearcatii_to_decimal, C, private_key, decrypted,
                   decrypted_to_bearcatii, decrypted_message,
                   ntVars, pwVars, cdVars, mrVars, genVars>>

\* Lines 334-340: one pass of the loop that reads the public key.
InputPublicKey(keys) ==
    /\ pc = "rsa_input_e"
    /\ \E entered \in keys :
        /\ e' = entered
        /\ pc' = IF euclid_gcd(entered, phi) = 1
                 THEN "rsa_input_message"
                 ELSE "rsa_input_e"
    /\ UNCHANGED <<p, q, n, phi, message, message_to_bearcatii,
                   bearcatii_to_decimal, C, private_key, decrypted,
                   decrypted_to_bearcatii, decrypted_message,
                   ntVars, pwVars, cdVars, mrVars, genVars>>

\* Line 342.
InputMessage(messages) ==
    /\ pc = "rsa_input_message"
    /\ \E entered \in messages : message' = entered
    /\ pc' = "rsa_encode"
    /\ UNCHANGED <<p, q, n, phi, e, message_to_bearcatii,
                   bearcatii_to_decimal, C, private_key, decrypted,
                   decrypted_to_bearcatii, decrypted_message,
                   ntVars, pwVars, cdVars, mrVars, genVars>>

\* Lines 343-346.
EncodeMessage ==
    /\ pc = "rsa_encode"
    /\ message_to_bearcatii' = convert_to_bearcatii(message)
    /\ bearcatii_to_decimal' = horner_eval(message_to_bearcatii', Radix)
    /\ pc' = "rsa_encrypt"
    /\ UNCHANGED <<p, q, n, phi, e, message, C, private_key, decrypted,
                   decrypted_to_bearcatii, decrypted_message,
                   ntVars, pwVars, cdVars, mrVars, genVars>>

\* Line 348: e is positive, so powers does not raise here.
Encrypt ==
    /\ pc = "rsa_encrypt"
    /\ C' = powers(bearcatii_to_decimal, e, n)
    /\ pc' = "rsa_derive"
    /\ UNCHANGED <<p, q, n, phi, e, message, message_to_bearcatii,
                   bearcatii_to_decimal, private_key, decrypted,
                   decrypted_to_bearcatii, decrypted_message,
                   ntVars, pwVars, cdVars, mrVars, genVars>>

\* Line 350.
DerivePrivateKey ==
    /\ pc = "rsa_derive"
    /\ private_key' = extended_euclid_gcd(e, phi)[2]
    /\ pc' = "rsa_decrypt"
    /\ UNCHANGED <<p, q, n, phi, e, message, message_to_bearcatii,
                   bearcatii_to_decimal, C, decrypted,
                   decrypted_to_bearcatii, decrypted_message,
                   ntVars, pwVars, cdVars, mrVars, genVars>>

\* Line 352: powers raises ValueError for a negative private_key when C
\* and n are not coprime, and rsa() ends there.
Decrypt ==
    /\ pc = "rsa_decrypt"
    /\ IF powers(C, private_key, n) = ValueError
       THEN /\ pc' = "rsa_raised"
            /\ UNCHANGED decrypted
       ELSE /\ decrypted' = powers(C, private_key, n)
            /\ pc' = "rsa_decode"
    /\ UNCHANGED <<p, q, n, phi, e, message, message_to_bearcatii,
                   bearcatii_to_decimal, C, private_key,
                   decrypted_to_bearcatii, decrypted_message,
                   ntVars, pwVars, cdVars, mrVars, genVars>>

\* Lines 353-354.
DecodeMessage ==
    /\ pc = "rsa_decode"
    /\ decrypted_to_bearcatii' = convert_to_base_n(decrypted, Radix)
    /\ IF convert_bearcatii_to_string(decrypted_to_bearcatii')
            = <<IndexError>>
       THEN /\ pc' = "rsa_raised"
            /\ UNCHANGED decrypted_message
       ELSE /\ decrypted_message' =
                   convert_bearcatii_to_string(decrypted_to_bearcatii')
            /\ pc' = "rsa_done"
    /\ UNCHANGED <<p, q, n, phi, e, message, message_to_bearcatii,
                   bearcatii_to_decimal, C, private_key, decrypted,
                   ntVars, pwVars, cdVars, mrVars, genVars>>

rsaStart ==
    /\ pc = "rsa_keys"
    /\ n = 0 /\ phi = 0 /\ e = 0
    /\ message = <<>> /\ message_to_bearcatii = <<>>
    /\ bearcatii_to_decimal = 0 /\ C = 0 /\ private_key = 0
    /\ decrypted = 0 /\ decrypted_to_bearcatii = <<>>
    /\ decrypted_message = <<>>
    /\ ntIdle /\ pwIdle /\ cdIdle /\ mrIdle /\ genIdle

\* p and q are two distinct primes up to MaxPrime.
InitRsa ==
    /\ p \in {x \in 2..MaxPrime : IsPrimeNumber(x)}
    /\ q \in {x \in 2..MaxPrime : IsPrimeNumber(x)}
    /\ p # q
    /\ rsaStart

NextRsa ==
    \/ ComputeModulus
    \/ InputPublicKey(1..MaxE)
    \/ InputMessage(Messages(MaxLen))
    \/ EncodeMessage
    \/ Encrypt
    \/ DerivePrivateKey
    \/ Decrypt
    \/ DecodeMessage

SpecRsa == InitRsa /\ [][NextRsa]_vars

\* C9: for every e and phi with gcd(e, phi) = 1, the private exponent the
\* engine derives and passes to decryption is s mod phi, where
\* (_, s, _) = extended_gcd(e, phi); hence 0 <= d < phi and
\* e*d mod phi = 1.
C9_PrivateExponentReduced ==
    pc \in {"rsa_decrypt", "rsa_decode", "rsa_done", "rsa_raised"} =>
        /\ private_key = extended_euclid_gcd(e, phi)[2] % phi
        /\ 0 <= private_key /\ private_key < phi
        /\ (e * private_key) % phi = 1

\* C10: for distinct primes p and q, every e coprime to (p-1)*(q-1) and
\* every message S of length >= 1 with encode(S, 27) < n = p*q, the flow
\* encrypt-then-decrypt completes without raising an error and returns S.
C10_RoundTripBelowModulus ==
    (/\ pc \in {"rsa_decrypt", "rsa_decode", "rsa_done", "rsa_raised"}
     /\ bearcatii_to_decimal < n)
    => /\ pc # "rsa_raised"
       /\ pc = "rsa_done" => decrypted_message = message

----------------------------------------------------------------------------
(* rsa() with p = 61 and q = 53 *)

HELLO == <<"H", "E", "L", "L", "O">>

InitHello ==
    /\ p = 61 /\ q = 53
    /\ rsaStart

NextHello ==
    \/ ComputeModulus
    \/ InputPublicKey(1..HelloMaxE)
    \/ InputMessage(Messages(HelloMaxLen) \cup {HELLO})
    \/ EncodeMessage
    \/ Encrypt
    \/ DerivePrivateKey
    \/ Decrypt
    \/ DecodeMessage

SpecHello == InitHello /\ [][NextHello]_vars

HelloCase ==
    /\ pc = "rsa_done"
    /\ n = 3233 /\ phi = 3120 /\ e = 17
    /\ message = HELLO

\* C1 as claimed: with p = 61, q = 53 (n = 3233, phi = 3120) and e = 17,
\* encoding "HELLO" at radix 27, encrypting, decrypting with the private
\* exponent derived from extended_gcd(e, phi) and decoding reproduces
\* "HELLO".
C1_HelloReproduced ==
    HelloCase => decrypted_message = HELLO

\* C1 as amended: in that run "HELLO" encodes to M = 4359030, which is
\* not below n = 3233; decryption yields M mod n = 946 and decoding
\* returns "AHA".
C1_HelloReducedModN ==
    HelloCase =>
        /\ bearcatii_to_decimal = 4359030
        /\ decrypted = bearcatii_to_decimal % n
        /\ decrypted = 946
        /\ decrypted_message = <<"A", "H", "A">>

C1_Witness ==
    /\ HelloCase
    /\ C = 1934
    /\ private_key = -367
    /\ decrypted_to_bearcatii = <<1, 8, 1>>

====
